---- MODULE Spec2Model ----
(***************************************************************************)
(* A model of class LexLSI (include/lexlsi.h): the active-set outer loop   *)
(* of the lexicographic least-squares solver.                              *)
(*                                                                         *)
(* LexLSI is translated from its source.  Its collaborators Objective,    *)
(* LexLSE and CyclingHandler (objective.h, lexlse.h, cycling.h) are        *)
(* modelled from their description in the specification.  Real numbers     *)
(* are exact rationals <<numerator, denominator>>.  Input data is          *)
(* restricted to rows that constrain one variable each (A rows are rows of *)
(* the identity), for which the lexicographic least-squares solution has a *)
(* closed form.                                                            *)
(***************************************************************************)
EXTENDS Integers, Sequences, FiniteSets, TLC

VARIABLES
    nObj,             \* number of objectives
    nObjOffset,       \* 1 iff objective 0 is of type SIMPLE_BOUNDS_OBJECTIVE
    objectives,       \* [0..nObj-1 -> Objective]
    parameters,       \* ParametersLexLSI (the fields the outer loop reads)
    x0_is_specified,
    status,
    nIterations,
    nActivations,
    nDeactivations,
    nFactorizations,
    step_length,
    x,
    dx,
    lexlse,           \* the LexLSE instance
    cycling_handler,  \* the CyclingHandler instance
    pc,               \* "idle": no call in progress; "loop": inside solve(), at the top of while(1)
    operation,        \* solve()'s local: what the last verifyWorkingSet() returned
    outcome,          \* how the last public call ended: "ok", "warning", "exception" or a returned status
    hist              \* history of the calls, read by the properties only

vars == <<nObj, nObjOffset, objectives, parameters, x0_is_specified, status,
          nIterations, nActivations, nDeactivations, nFactorizations,
          step_length, x, dx, lexlse, cycling_handler, pc, operation,
          outcome, hist>>

-----------------------------------------------------------------------------
(* Bounds of the model *)

\* largest max_number_of_factorizations a caller sets
MaxCap == 2

\* number of solve() calls on one instance
MaxSolves == 2

\* number of other calls between two solve() calls (before the first solve()
\* their number is not bounded; after the last one none is modelled)
MaxCallsBetween == 1

-----------------------------------------------------------------------------
(* Enumerations (typedefs used by lexlsi.h) *)

GENERAL_OBJECTIVE == "GENERAL_OBJECTIVE"
SIMPLE_BOUNDS_OBJECTIVE == "SIMPLE_BOUNDS_OBJECTIVE"

CTR_INACTIVE == "CTR_INACTIVE"
CTR_ACTIVE_LB == "CTR_ACTIVE_LB"
CTR_ACTIVE_UB == "CTR_ACTIVE_UB"
CTR_ACTIVE_EQ == "CTR_ACTIVE_EQ"

OPERATION_UNDEFINED == "OPERATION_UNDEFINED"
OPERATION_ADD == "OPERATION_ADD"
OPERATION_REMOVE == "OPERATION_REMOVE"

TERMINATION_STATUS_UNKNOWN == "TERMINATION_STATUS_UNKNOWN"
PROBLEM_SOLVED == "PROBLEM_SOLVED"
PROBLEM_SOLVED_CYCLING_HANDLING == "PROBLEM_SOLVED_CYCLING_HANDLING"
MAX_NUMBER_OF_FACTORIZATIONS_EXCEDED == "MAX_NUMBER_OF_FACTORIZATIONS_EXCEDED"

-----------------------------------------------------------------------------
(* RealScalar: exact rationals <<n, d>> with d > 0, in lowest terms *)

Abs(i) == IF i < 0 THEN -i ELSE i

RECURSIVE GCD(_, _)
GCD(a, b) == IF b = 0 THEN a ELSE GCD(b, a % b)

Rat(n, d) ==
    LET s == IF d < 0 THEN -1 ELSE 1
        g == GCD(Abs(n), Abs(d))
    IN  <<(s * n) \div g, (s * d) \div g>>

RInt(i) == <<i, 1>>
RAdd(a, b) == Rat(a[1] * b[2] + b[1] * a[2], a[2] * b[2])
RSub(a, b) == Rat(a[1] * b[2] - b[1] * a[2], a[2] * b[2])
RMul(a, b) == Rat(a[1] * b[1], a[2] * b[2])
RDiv(a, b) == Rat(a[1] * b[2], a[2] * b[1])
RNeg(a) == <<-a[1], a[2]>>
RLess(a, b) == a[1] * b[2] < b[1] * a[2]

\* the variables: nVar is the number of elements of VarIndexSet
VarIndexSet == {0}
nVar == Cardinality(VarIndexSet)

ZeroVector == [k \in VarIndexSet |-> RInt(0)]

-----------------------------------------------------------------------------
(* Objective (objective.h), from its description in the specification *)

\* Objective::resize: dim rows, nothing active, no data yet
Objective_resize(dim, type) ==
    [ObjType  |-> type,
     nCtr     |-> dim,
     hasData  |-> FALSE,
     data     |-> [c \in 0..dim-1 |-> [var |-> 0, l |-> RInt(0), u |-> RInt(0)]],
     ctr_type |-> [c \in 0..dim-1 |-> CTR_INACTIVE],
     active   |-> <<>>,
     v        |-> [c \in 0..dim-1 |-> RInt(0)],
     dv       |-> [c \in 0..dim-1 |-> RInt(0)]]

Objective_isActive(o, CtrIndex) == o.ctr_type[CtrIndex] # CTR_INACTIVE

Objective_getActiveCtrCount(o) == Len(o.active)

\* the k-th element of the working set (k counts from 0)
Objective_getActiveCtrIndex(o, k) == o.active[k + 1]

Objective_getActiveCtrType(o, k) == o.ctr_type[o.active[k + 1]]

\* Objective::activate refuses a row that does not exist or is already active
Objective_activateThrows(o, CtrIndex) ==
    \/ CtrIndex \notin 0..o.nCtr-1
    \/ o.ctr_type[CtrIndex] # CTR_INACTIVE

\* Objective::activate: the row is appended to the working set (insertion order)
Objective_activate(o, CtrIndex, type) ==
    [o EXCEPT !.ctr_type[CtrIndex] = type, !.active = Append(@, CtrIndex)]

\* Objective::deactivate: later entries of the working set shift up
Objective_deactivate(o, CtrIndexActive) ==
    [o EXCEPT !.ctr_type[o.active[CtrIndexActive + 1]] = CTR_INACTIVE,
              !.active = SubSeq(@, 1, CtrIndexActive)
                            \o SubSeq(@, CtrIndexActive + 2, Len(@))]

Objective_setData(o, data) == [o EXCEPT !.data = data, !.hasData = TRUE]

\* the active target of a row: l for LB and EQ, u for UB
Objective_target(o, CtrIndex) ==
    IF o.ctr_type[CtrIndex] = CTR_ACTIVE_UB THEN o.data[CtrIndex].u
                                            ELSE o.data[CtrIndex].l

\* Objective::phase1: v = A x - c on active rows, 0 on inactive rows
Objective_phase1(o, xx) ==
    [o EXCEPT !.v = [c \in 0..o.nCtr-1 |->
        IF Objective_isActive(o, c)
        THEN RSub(xx[o.data[c].var], Objective_target(o, c))
        ELSE RInt(0)]]

\* Objective::formStep: dv = A dx on active rows, -A dx on inactive rows
Objective_formStep(o, dxx) ==
    [o EXCEPT !.dv = [c \in 0..o.nCtr-1 |->
        IF Objective_isActive(o, c) THEN dxx[o.data[c].var]
                                    ELSE RNeg(dxx[o.data[c].var])]]

\* Objective::step: v <- v + alpha dv
Objective_step(o, alpha) ==
    [o EXCEPT !.v = [c \in 0..o.nCtr-1 |-> RAdd(o.v[c], RMul(alpha, o.dv[c]))]]

\* The largest alpha in [0,1] for which inactive row c stays within its bounds
\* along x + alpha dx, and the bound that is hit; alpha = 1 when none is hit.
Objective_rowRatio(o, c, xx, dxx) ==
    LET row == o.data[c]
        d   == dxx[row.var]
        ax  == xx[row.var]
        rhs == IF d[1] < 0 THEN row.l ELSE row.u
        r   == IF d[1] = 0 THEN RInt(1) ELSE RDiv(RSub(rhs, ax), d)
    IN  [alpha |-> IF RLess(r, RInt(0)) THEN RInt(0) ELSE r,
         type  |-> IF d[1] < 0 THEN CTR_ACTIVE_LB ELSE CTR_ACTIVE_UB]

\* Objective::checkBlockingConstraints, rows c.. of the objective: acc holds
\* the in/out arguments (CtrIndexBlocking, CtrTypeBlocking, alpha) and the
\* return value (found).  A row replaces the candidate only when it is
\* strictly tighter: ties keep the row met first.
RECURSIVE Objective_scanBlocking(_, _, _, _, _)
Objective_scanBlocking(o, c, xx, dxx, acc) ==
    IF c >= o.nCtr THEN acc
    ELSE LET r == Objective_rowRatio(o, c, xx, dxx)
         IN  IF ~Objective_isActive(o, c) /\ RLess(r.alpha, acc.alpha)
             THEN Objective_scanBlocking(o, c + 1, xx, dxx,
                      [found |-> TRUE, CtrIndex |-> c, CtrType |-> r.type,
                       alpha |-> r.alpha])
             ELSE Objective_scanBlocking(o, c + 1, xx, dxx, acc)

Objective_checkBlockingConstraints(o, xx, dxx, CtrIndexBlocking, CtrTypeBlocking, alpha) ==
    Objective_scanBlocking(o, 0, xx, dxx,
        [found |-> FALSE, CtrIndex |-> CtrIndexBlocking,
         CtrType |-> CtrTypeBlocking, alpha |-> alpha])

\* the rows Objective::formLexLSE hands to LexLSE: the working set in order,
\* each row with its active bound as right-hand side
Objective_formLexLSE(o) ==
    [k \in 1..Len(o.active) |->
        [var  |-> o.data[o.active[k]].var,
         rhs  |-> Objective_target(o, o.active[k]),
         type |-> o.ctr_type[o.active[k]]]]

-----------------------------------------------------------------------------
(* LexLSE (lexlse.h), from its description in the specification.  rows[i]  *)
(* holds the rows assembled from LexLSI objective i; with nObjOffset = 1   *)
(* rows[0] are the fixed variables, which are no objective of LexLSE.      *)

LexLSE_resize(n) ==
    [formed     |-> FALSE,
     factorized |-> FALSE,
     rows       |-> [i \in 0..n-1 |-> <<>>],
     x          |-> ZeroVector]

RECURSIVE LexLSE_sumRhs(_)
LexLSE_sumRhs(s) ==
    IF s = <<>> THEN RInt(0) ELSE RAdd(Head(s).rhs, LexLSE_sumRhs(Tail(s)))

LexLSE_rowsOn(s, k) == SelectSeq(s, LAMBDA r : r.var = k)

\* Component k of the lexicographic minimizer: a fixed variable takes its
\* bound; otherwise the highest-priority level with rows on x(k) decides, by
\* least squares (the mean of its right-hand sides); a free variable is 0.
LexLSE_component(rows, n, off, k) ==
    LET levels == {i \in 0..n-1 : LexLSE_rowsOn(rows[i], k) # <<>>}
    IN  IF levels = {} THEN RInt(0)
        ELSE LET i == CHOOSE i \in levels : \A j \in levels : i <= j
                 s == LexLSE_rowsOn(rows[i], k)
             IN  IF i < off THEN s[1].rhs
                 ELSE RDiv(LexLSE_sumRhs(s), RInt(Len(s)))

\* LexLSE::factorize followed by LexLSE::solve
LexLSE_factorize_solve(lex, n, off) ==
    [lex EXCEPT !.factorized = TRUE,
                !.x = [k \in VarIndexSet |-> LexLSE_component(lex.rows, n, off, k)]]

\* LexLSE::getDim of level ObjIndex (LexLSE numbering)
LexLSE_getDim(lex, off, ObjIndex) == Len(lex.rows[ObjIndex + off])

\* What LexLSE::ObjectiveSensitivity(ObjIndex, ...) can answer.  The
\* multipliers are not computed here: every answer its contract allows is
\* possible.  A descent direction names a row of the assembled working set
\* that is active at a bound (LB or UB), in level ObjIndex itself or, with
\* ObjIndex2Remove_int = -1, among the fixed variables.
LexLSE_ObjectiveSensitivity(lex, off, ObjIndex) ==
    {[DescentDirectionExists |-> FALSE, CtrIndex2Remove |-> 0,
      ObjIndex2Remove_int |-> ObjIndex]}
    \cup
    UNION {{[DescentDirectionExists |-> TRUE, CtrIndex2Remove |-> p,
             ObjIndex2Remove_int |-> j] :
                p \in {q \in 0..Len(lex.rows[j + off])-1 :
                         lex.rows[j + off][q + 1].type
                             \in {CTR_ACTIVE_LB, CTR_ACTIVE_UB}}} :
           j \in {ObjIndex} \cup (IF off = 1 THEN {-1} ELSE {})}

-----------------------------------------------------------------------------
(* CyclingHandler (cycling.h), from its description in the specification   *)

ConstraintIdentifier(ObjIndex, CtrIndex, CtrType) ==
    [obj |-> ObjIndex, ctr |-> CtrIndex, type |-> CtrType]

NoConstraint == ConstraintIdentifier(-1, -1, CTR_INACTIVE)

CyclingHandler_init ==
    [counter     |-> 0,
     max_counter |-> 1,
     relax_step  |-> RInt(0),
     previous    |-> [operation |-> OPERATION_UNDEFINED, id |-> NoConstraint]]

\* widen the bounds of the oscillating constraint by relax_step
CyclingHandler_relax(objs, id, step) ==
    [objs EXCEPT ![id.obj].data[id.ctr].l = RSub(@, step),
                 ![id.obj].data[id.ctr].u = RAdd(@, step)]

\* CyclingHandler::update(operation, id, objectives, nIterations, false):
\* the counter grows when the constraint comes back with the opposite
\* operation; at max_counter the bounds are relaxed and termination is
\* signalled.  Returns the handler, the objectives and the status.
CyclingHandler_update(h, op, id, objs) ==
    LET match == /\ h.previous.id = id
                 /\ h.previous.operation # OPERATION_UNDEFINED
                 /\ h.previous.operation # op
        cnt   == IF match THEN h.counter + 1 ELSE h.counter
        relax == match /\ cnt >= h.max_counter
    IN  [handler    |-> [h EXCEPT !.counter = cnt,
                                  !.previous = [operation |-> op, id |-> id]],
         objectives |-> IF relax THEN CyclingHandler_relax(objs, id, h.relax_step)
                                 ELSE objs,
         status     |-> IF relax THEN PROBLEM_SOLVED_CYCLING_HANDLING
                                 ELSE TERMINATION_STATUS_UNKNOWN]

-----------------------------------------------------------------------------
(* LexLSI: the members as one record, so that the methods compose *)

Self ==
    [nObj |-> nObj, nObjOffset |-> nObjOffset, objectives |-> objectives,
     parameters |-> parameters, x0_is_specified |-> x0_is_specified,
     status |-> status, nIterations |-> nIterations,
     nActivations |-> nActivations, nDeactivations |-> nDeactivations,
     nFactorizations |-> nFactorizations, step_length |-> step_length,
     x |-> x, dx |-> dx, lexlse |-> lexlse,
     cycling_handler |-> cycling_handler, operation |-> operation,
     hist |-> hist, thrown |-> FALSE]

Assign(m) ==
    /\ nObj' = m.nObj
    /\ nObjOffset' = m.nObjOffset
    /\ objectives' = m.objectives
    /\ parameters' = m.parameters
    /\ x0_is_specified' = m.x0_is_specified
    /\ status' = m.status
    /\ nIterations' = m.nIterations
    /\ nActivations' = m.nActivations
    /\ nDeactivations' = m.nDeactivations
    /\ nFactorizations' = m.nFactorizations
    /\ step_length' = m.step_length
    /\ x' = m.x
    /\ dx' = m.dx
    /\ lexlse' = m.lexlse
    /\ cycling_handler' = m.cycling_handler
    /\ operation' = m.operation
    /\ hist' = m.hist

ObjIndexSet(m) == 0..m.nObj-1

\* isEqual(bl, bu) of the bound check in setData
isEqual(a, b) == a = b

\* activate that does not pass on the exception of Objective::activate for a
\* row that is already in the working set
activate_unchecked(m, ObjIndex, CtrIndex, type, CountIteration) ==
    IF ObjIndex >= m.nObj THEN [m EXCEPT !.thrown = TRUE]
    ELSE IF CtrIndex \notin 0..m.objectives[ObjIndex].nCtr-1
    THEN [m EXCEPT !.thrown = TRUE]
    ELSE [m EXCEPT
            !.objectives[ObjIndex] = Objective_activate(@, CtrIndex, type),
            !.nActivations = IF CountIteration THEN @ + 1 ELSE @,
            !.hist.nInitial = IF CountIteration THEN @ ELSE @ + 1,
            !.hist.nInitialEQ =
                IF ~CountIteration /\ type = CTR_ACTIVE_EQ THEN @ + 1 ELSE @]

\* activate that increments nActivations whatever CountIteration is
activate_alwaysCounts(m, ObjIndex, CtrIndex, type, CountIteration) ==
    IF ObjIndex >= m.nObj THEN [m EXCEPT !.thrown = TRUE]
    ELSE IF Objective_activateThrows(m.objectives[ObjIndex], CtrIndex)
    THEN [m EXCEPT !.thrown = TRUE]
    ELSE [m EXCEPT
            !.objectives[ObjIndex] = Objective_activate(@, CtrIndex, type),
            !.nActivations = @ + 1,
            !.hist.nInitial = IF CountIteration THEN @ ELSE @ + 1,
            !.hist.nInitialEQ =
                IF ~CountIteration /\ type = CTR_ACTIVE_EQ THEN @ + 1 ELSE @]

\* LexLSI::activate.  hist.nInitial counts the rows activated with
\* CountIteration = false (the initial working set).
activate(m, ObjIndex, CtrIndex, type, CountIteration) ==
    IF ObjIndex >= m.nObj THEN [m EXCEPT !.thrown = TRUE]
    ELSE IF Objective_activateThrows(m.objectives[ObjIndex], CtrIndex)
    THEN [m EXCEPT !.thrown = TRUE]
    ELSE [m EXCEPT
            !.objectives[ObjIndex] = Objective_activate(@, CtrIndex, type),
            !.nActivations = IF CountIteration THEN @ + 1 ELSE @,
            !.hist.nInitial = IF CountIteration THEN @ ELSE @ + 1,
            !.hist.nInitialEQ =
                IF ~CountIteration /\ type = CTR_ACTIVE_EQ THEN @ + 1 ELSE @]

\* LexLSI::deactivate
deactivate(m, ObjIndex, CtrIndexActive) ==
    IF ObjIndex >= m.nObj THEN [m EXCEPT !.thrown = TRUE]
    ELSE [m EXCEPT
            !.objectives[ObjIndex] = Objective_deactivate(@, CtrIndexActive),
            !.nDeactivations = @ + 1]

\* LexLSI::getActiveCtrCount
getActiveCtrCountOf(objs) ==
    LET RECURSIVE sum(_)
        sum(i) == IF i \notin DOMAIN objs THEN 0
                  ELSE Objective_getActiveCtrCount(objs[i]) + sum(i + 1)
    IN  sum(0)

getActiveCtrCount == getActiveCtrCountOf(objectives)

\* The levels the LexLSE was sized for by LexLSI::resize:
\* lexlse.resize(nVar, nObj - nObjOffset, ObjDim_ + nObjOffset)
LexLSE_levels(m) == 0..(m.nObj - m.nObjOffset - 1)

\* LexLSE::getFixedVariablesCount: the fixed variables are the active rows
\* of a simple-bounds objective 0
LexLSE_getFixedVariablesCount(lex, off) ==
    IF off = 1 THEN Len(lex.rows[0]) ELSE 0

\* What a read beyond the last level of the LexLSE can give
UnspecifiedDims == {0, 1, 2}

\* lexlse.getDim(L) as called by getLambda: the dimension of an existing
\* level, anything for a level the LexLSE does not have
getLambda_getDim(m, L) ==
    IF L \in LexLSE_levels(m)
    THEN {LexLSE_getDim(m.lexlse, m.nObjOffset, L)}
    ELSE UnspecifiedDims

\* Sum of dims[0..k]
getLambda_sum(dims, k) ==
    LET RECURSIVE sum(_)
        sum(i) == IF i > k THEN 0 ELSE dims[i] + sum(i + 1)
    IN  sum(0)

\* LexLSI::getLambda, by the shape of what it builds: the first loop sums
\* lexlse.getDim(ObjIndex) for ObjIndex < nObj into the row count of L; the
\* second loop, over ObjIndex < nObj - nObjOffset, copies the first
\* nMeaningful entries of the workspace into column nObjOffset + ObjIndex.
getLambda(m) ==
    {[rows    |-> getLambda_sum(dims, m.nObj - 1),
      cols    |-> m.nObj,
      queried |-> (0..(m.nObj - 1)) \cup LexLSE_levels(m),
      copied  |-> [ObjIndex \in LexLSE_levels(m) |->
                      LexLSE_getFixedVariablesCount(m.lexlse, m.nObjOffset)
                          + getLambda_sum(dims, ObjIndex)]] :
        dims \in {f \in [0..(m.nObj - 1) -> 0..2] :
                     \A L \in 0..(m.nObj - 1) : f[L] \in getLambda_getDim(m, L)}}

\* LexLSI::formLexLSE
formLexLSE(m) ==
    [m EXCEPT !.lexlse =
        [@ EXCEPT !.formed = TRUE,
                  !.factorized = FALSE,
                  !.rows = [i \in ObjIndexSet(m) |->
                               Objective_formLexLSE(m.objectives[i])]]]

\* lexlse.factorize(); lexlse.solve()
factorize_solve(m) ==
    [m EXCEPT !.lexlse = LexLSE_factorize_solve(@, m.nObj, m.nObjOffset)]

\* LexLSI::formStep
formStep(m) ==
    LET d == [k \in VarIndexSet |-> RSub(m.lexlse.x[k], m.x[k])]
    IN  [m EXCEPT !.dx = d,
                  !.objectives = [i \in ObjIndexSet(m) |->
                                     Objective_formStep(m.objectives[i], d)]]

\* phase1 that factorizes whether or not x0 was supplied
phase1_ignoresX0(m) ==
    LET active_constraints_exist ==
            \E ObjIndex \in ObjIndexSet(m) :
                Objective_getActiveCtrCount(m.objectives[ObjIndex]) > 0
        m1 == IF active_constraints_exist THEN formLexLSE(m) ELSE m
        m2 == IF active_constraints_exist
              THEN LET f == factorize_solve(m1)
                   IN  [f EXCEPT !.x = f.lexlse.x, !.nFactorizations = @ + 1]
              ELSE IF ~m.x0_is_specified
              THEN [m1 EXCEPT !.x = [k \in VarIndexSet |-> Rat(1, 100)]]
              ELSE m1
        m3 == [m2 EXCEPT !.objectives =
                  [i \in ObjIndexSet(m) |-> Objective_phase1(m2.objectives[i], m2.x)]]
    IN  [m3 EXCEPT !.dx = ZeroVector,
                   !.objectives = [i \in ObjIndexSet(m) |->
                                      Objective_formStep(m3.objectives[i], ZeroVector)],
                   !.hist.phase1Factorized = active_constraints_exist]

\* LexLSI::phase1.  hist.phase1Factorized records whether it factorized.
phase1(m) ==
    LET active_constraints_exist ==
            \E ObjIndex \in ObjIndexSet(m) :
                Objective_getActiveCtrCount(m.objectives[ObjIndex]) > 0
        factorizes == active_constraints_exist /\ ~m.x0_is_specified
        m1 == IF active_constraints_exist THEN formLexLSE(m) ELSE m
        m2 == IF factorizes
              THEN LET f == factorize_solve(m1)
                   IN  [f EXCEPT !.x = f.lexlse.x, !.nFactorizations = @ + 1]
              ELSE IF ~active_constraints_exist /\ ~m.x0_is_specified
              THEN [m1 EXCEPT !.x = [k \in VarIndexSet |-> Rat(1, 100)]]
              ELSE m1
        m3 == [m2 EXCEPT !.objectives =
                  [i \in ObjIndexSet(m) |-> Objective_phase1(m2.objectives[i], m2.x)]]
    IN  [m3 EXCEPT !.dx = ZeroVector,
                   !.objectives = [i \in ObjIndexSet(m) |->
                                      Objective_formStep(m3.objectives[i], ZeroVector)],
                   !.hist.phase1Factorized = factorizes]

\* the loop of checkBlockingConstraints writing ObjIndexBlocking in every pass
checkBlockingStep_lastObjective(ObjIndex, acc, r) ==
    [ObjIndexBlocking |-> ObjIndex,
     CtrIndexBlocking |-> r.CtrIndex,
     CtrTypeBlocking  |-> r.CtrType,
     alpha            |-> r.alpha]

\* one pass of the loop of LexLSI::checkBlockingConstraints: r is what the
\* objective returned; ObjIndexBlocking is written only when it reports a
\* blocking row of its own
checkBlockingStep(ObjIndex, acc, r) ==
    [ObjIndexBlocking |-> IF r.found THEN ObjIndex ELSE acc.ObjIndexBlocking,
     CtrIndexBlocking |-> r.CtrIndex,
     CtrTypeBlocking  |-> r.CtrType,
     alpha            |-> r.alpha]

\* the loop of LexLSI::checkBlockingConstraints, objectives ObjIndex.. : acc
\* holds the out arguments
RECURSIVE checkBlockingScan(_, _, _)
checkBlockingScan(m, ObjIndex, acc) ==
    IF ObjIndex >= m.nObj THEN acc
    ELSE checkBlockingScan(m, ObjIndex + 1,
             checkBlockingStep(ObjIndex, acc,
                 Objective_checkBlockingConstraints(m.objectives[ObjIndex],
                     m.x, m.dx, acc.CtrIndexBlocking, acc.CtrTypeBlocking,
                     acc.alpha)))

\* the return value of LexLSI::checkBlockingConstraints (found) with its out
\* arguments
checkBlockingReturn(acc) ==
    [found            |-> RLess(acc.alpha, RInt(1)),
     ObjIndexBlocking |-> acc.ObjIndexBlocking,
     CtrIndexBlocking |-> acc.CtrIndexBlocking,
     CtrTypeBlocking  |-> acc.CtrTypeBlocking,
     alpha            |-> acc.alpha]

\* LexLSI::checkBlockingConstraints.  ObjIndexBlocking and CtrIndexBlocking
\* are uninitialized in the caller (-1 here) and read only when found.
checkBlockingConstraints(m) ==
    checkBlockingReturn(
        checkBlockingScan(m, 0,
            [ObjIndexBlocking |-> -1, CtrIndexBlocking |-> -1,
             CtrTypeBlocking |-> CTR_INACTIVE, alpha |-> RInt(1)]))

\* the answers LexLSE can give to the calls of one removal search: one per
\* level of LexLSE
SensitivityAnswers(m) ==
    LET levels == 0..(m.nObj - m.nObjOffset - 1)
        all == UNION {LexLSE_ObjectiveSensitivity(m.lexlse, m.nObjOffset, L) :
                         L \in levels}
    IN  {f \in [levels -> all] :
            \A L \in levels :
                f[L] \in LexLSE_ObjectiveSensitivity(m.lexlse, m.nObjOffset, L)}

\* findActiveCtr2Remove without the mapping of line 630 to the objectives of
\* LexLSI
findActiveCtr2Remove_noOffset(m, sens) ==
    LET levels == 0..(m.nObj - m.nObjOffset - 1)
        hit == {L \in levels : sens[L].DescentDirectionExists}
    IN  IF hit = {}
        THEN [found |-> FALSE, ObjIndex2Remove |-> -1, CtrIndex2Remove |-> -1]
        ELSE LET L == CHOOSE L \in hit : \A K \in hit : L <= K
             IN  [found |-> TRUE,
                  ObjIndex2Remove |-> sens[L].ObjIndex2Remove_int,
                  CtrIndex2Remove |-> sens[L].CtrIndex2Remove]

\* findActiveCtr2Remove naming the first row of the working set
findActiveCtr2Remove_first(m, sens) ==
    LET levels == 0..(m.nObj - m.nObjOffset - 1)
        hit == {L \in levels : sens[L].DescentDirectionExists}
    IN  IF hit = {}
        THEN [found |-> FALSE, ObjIndex2Remove |-> -1, CtrIndex2Remove |-> -1]
        ELSE LET L == CHOOSE L \in hit : \A K \in hit : L <= K
             IN  [found |-> TRUE,
                  ObjIndex2Remove |-> sens[L].ObjIndex2Remove_int + m.nObjOffset,
                  CtrIndex2Remove |-> 0]

\* LexLSI::findActiveCtr2Remove; sens[L] is what ObjectiveSensitivity(L) answers
findActiveCtr2Remove(m, sens) ==
    LET levels == 0..(m.nObj - m.nObjOffset - 1)
        hit == {L \in levels : sens[L].DescentDirectionExists}
    IN  IF hit = {}
        THEN [found |-> FALSE, ObjIndex2Remove |-> -1, CtrIndex2Remove |-> -1]
        ELSE LET L == CHOOSE L \in hit : \A K \in hit : L <= K
             IN  [found |-> TRUE,
                  ObjIndex2Remove |-> sens[L].ObjIndex2Remove_int + m.nObjOffset,
                  CtrIndex2Remove |-> sens[L].CtrIndex2Remove]

\* the refactorization without nFactorizations++ (line 660)
refactorize_uncounted(m) == formStep(factorize_solve(formLexLSE(m)))

\* lines 653-660 of verifyWorkingSet: assemble, factorize, solve, form the step
refactorize(m) ==
    LET f == formStep(factorize_solve(formLexLSE(m)))
    IN  [f EXCEPT !.nFactorizations = @ + 1]

\* the step that moves x but not the v of the objectives
takeStep_xOnly(m, alpha) ==
    [m EXCEPT !.x = [k \in VarIndexSet |-> RAdd(m.x[k], RMul(alpha, m.dx[k]))]]

\* x += alpha*dx and objectives[...].step(alpha)
takeStep(m, alpha) ==
    [m EXCEPT !.x = [k \in VarIndexSet |-> RAdd(m.x[k], RMul(alpha, m.dx[k]))],
              !.objectives = [i \in ObjIndexSet(m) |->
                                 Objective_step(m.objectives[i], alpha)]]

\* the removal search made whenever nothing blocks, x0 or not
searchesRemoval_ignoresX0(blocking, normalIteration) == ~blocking

\* a removal search that does not depend on the blocking check
searchesRemoval_always(blocking, normalIteration) == normalIteration

\* verifyWorkingSet searches a row to remove in the else branch of the
\* blocking check, and only in a normal iteration (lines 670, 680-684)
searchesRemoval(blocking, normalIteration) == ~blocking /\ normalIteration

\* the cycling handler consulted in every iteration when enabled
updatesHandler_always(enabled, op) == enabled

\* verifyWorkingSet calls cycling_handler.update when cycling handling is
\* enabled and the iteration added or removed a row (line 715)
updatesHandler(enabled, op) == enabled /\ op # OPERATION_UNDEFINED

\* LexLSI::verifyWorkingSet from line 670 on: m1 holds the members after
\* lines 651-668 and blk what checkBlockingConstraints returned.  The locals
\* of the iteration that the properties read are kept in hist.
verifyWorkingSet_update(m1, normalIteration, blk, sens) ==
    LET searched == searchesRemoval(blk.found, normalIteration)
        rem == IF searched THEN findActiveCtr2Remove(m1, sens)
               ELSE [found |-> FALSE, ObjIndex2Remove |-> -1, CtrIndex2Remove |-> -1]
        op  == IF rem.found THEN OPERATION_REMOVE
               ELSE IF blk.found THEN OPERATION_ADD
               ELSE OPERATION_UNDEFINED
        constraint_identifier ==
               IF ~m1.parameters.cycling_handling_enabled THEN NoConstraint
               ELSE IF blk.found
               THEN ConstraintIdentifier(blk.ObjIndexBlocking,
                        blk.CtrIndexBlocking, blk.CtrTypeBlocking)
               ELSE IF rem.found
               THEN ConstraintIdentifier(rem.ObjIndex2Remove,
                        Objective_getActiveCtrIndex(
                            m1.objectives[rem.ObjIndex2Remove], rem.CtrIndex2Remove),
                        Objective_getActiveCtrType(
                            m1.objectives[rem.ObjIndex2Remove], rem.CtrIndex2Remove))
               ELSE NoConstraint
        ma  == IF blk.found
               THEN activate(m1, blk.ObjIndexBlocking, blk.CtrIndexBlocking,
                             blk.CtrTypeBlocking, TRUE)
               ELSE m1
        m2  == IF searched
               THEN IF rem.found
                    THEN deactivate(ma, rem.ObjIndex2Remove, rem.CtrIndex2Remove)
                    ELSE [ma EXCEPT !.status = PROBLEM_SOLVED]
               ELSE ma
        m3  == [m2 EXCEPT !.step_length =
                   IF op = OPERATION_ADD THEN blk.alpha ELSE RInt(-1)]
        m4  == IF RLess(RInt(0), blk.alpha) THEN takeStep(m3, blk.alpha) ELSE m3
        upd == updatesHandler(m1.parameters.cycling_handling_enabled, op)
        m5  == IF upd
               THEN LET u == CyclingHandler_update(m4.cycling_handler, op,
                                 constraint_identifier, m4.objectives)
                    IN  [m4 EXCEPT !.status = u.status,
                                   !.cycling_handler = u.handler,
                                   !.objectives = u.objectives]
               ELSE m4
    IN  [m5 EXCEPT !.nIterations = @ + 1,
                   !.operation = op,
                   !.hist.blocking = blk.found,
                   !.hist.alpha = blk.alpha,
                   !.hist.searched = searched,
                   !.hist.removalFound = rem.found,
                   !.hist.iterInCall = @ + 1,
                   !.hist.nUpdates = IF upd THEN 1 ELSE 0,
                   !.hist.updateIteration = IF upd THEN m1.nIterations ELSE -1,
                   !.hist.updateId = IF upd THEN constraint_identifier
                                           ELSE NoConstraint,
                   !.hist.updateStatus = IF upd THEN m5.status
                                               ELSE TERMINATION_STATUS_UNKNOWN,
                   !.hist.updateSaw =
                       IF upd THEN [x |-> m4.x,
                                    active |-> [i \in ObjIndexSet(m4) |->
                                                   m4.objectives[i].active]]
                              ELSE [x |-> ZeroVector, active |-> <<>>]]

\* LexLSI::verifyWorkingSet from line 670 on, with the blocking check
verifyWorkingSet_check(m1, normalIteration, sens) ==
    verifyWorkingSet_update(m1, normalIteration, checkBlockingConstraints(m1), sens)

\* an iteration that assembles and factorizes also when nIterations = 0
verifyWorkingSet_alwaysRefactorizes(m, sens) ==
    verifyWorkingSet_check(refactorize(m),
                           ~(m.nIterations = 0 /\ m.x0_is_specified), sens)

\* LexLSI::verifyWorkingSet: one iteration of the active-set method
verifyWorkingSet(m, sens) ==
    verifyWorkingSet_check(IF m.nIterations # 0 THEN refactorize(m) ELSE m,
                           ~(m.nIterations = 0 /\ m.x0_is_specified), sens)

\* the loop exit that does not leave on PROBLEM_SOLVED_CYCLING_HANDLING
solveLoopExit_onlySolved(m) ==
    IF m.status = PROBLEM_SOLVED
    THEN [m |-> m, break |-> TRUE]
    ELSE IF m.nFactorizations >= m.parameters.max_number_of_factorizations
    THEN [m |-> [m EXCEPT !.status = MAX_NUMBER_OF_FACTORIZATIONS_EXCEDED],
          break |-> TRUE]
    ELSE [m |-> m, break |-> FALSE]

\* the loop exit with the cap compared by > instead of >=
solveLoopExit_strict(m) ==
    IF m.status = PROBLEM_SOLVED \/ m.status = PROBLEM_SOLVED_CYCLING_HANDLING
    THEN [m |-> m, break |-> TRUE]
    ELSE IF m.nFactorizations > m.parameters.max_number_of_factorizations
    THEN [m |-> [m EXCEPT !.status = MAX_NUMBER_OF_FACTORIZATIONS_EXCEDED],
          break |-> TRUE]
    ELSE [m |-> m, break |-> FALSE]

\* the loop exit that leaves at the cap without the assignment of line 194
solveLoopExit_noStatus(m) ==
    IF m.status = PROBLEM_SOLVED \/ m.status = PROBLEM_SOLVED_CYCLING_HANDLING
    THEN [m |-> m, break |-> TRUE]
    ELSE IF m.nFactorizations >= m.parameters.max_number_of_factorizations
    THEN [m |-> m, break |-> TRUE]
    ELSE [m |-> m, break |-> FALSE]

\* the body of while(1) in solve() after verifyWorkingSet: lines 186-197
solveLoopExit(m) ==
    IF m.status = PROBLEM_SOLVED \/ m.status = PROBLEM_SOLVED_CYCLING_HANDLING
    THEN [m |-> m, break |-> TRUE]
    ELSE IF m.nFactorizations >= m.parameters.max_number_of_factorizations
    THEN [m |-> [m EXCEPT !.status = MAX_NUMBER_OF_FACTORIZATIONS_EXCEDED],
          break |-> TRUE]
    ELSE [m |-> m, break |-> FALSE]

-----------------------------------------------------------------------------
(* Inputs of the calls *)

\* [l, u] of a row: two inequalities, an equality, and l > u
BoundMenu == {<<0, 1>>, <<0, 2>>, <<2, 2>>, <<1, 0>>}

\* a row of the data: the variable it constrains (the row of A for a general
\* objective, the entry of VarIndex for simple bounds) and its bounds
RowMenu ==
    {[var |-> k, l |-> RInt(b[1]), u |-> RInt(b[2])] :
        k \in VarIndexSet, b \in BoundMenu}

\* data matrices with one or two rows
DataMenu == [0..0 -> RowMenu] \cup [0..1 -> RowMenu]

X0Menu == {[k \in VarIndexSet |-> RInt(0)]}

ParametersMenu ==
    [max_number_of_factorizations : 0..MaxCap,
     cycling_handling_enabled     : BOOLEAN,
     cycling_max_counter          : {1},
     cycling_relax_step           : {Rat(1, 100)}]

\* constructor arguments (ObjDim_, ObjType_)
ConfigMenu ==
    {<<[dim |-> 2, type |-> GENERAL_OBJECTIVE]>>,
     <<[dim |-> 1, type |-> GENERAL_OBJECTIVE],
       [dim |-> 1, type |-> GENERAL_OBJECTIVE]>>,
     <<[dim |-> 1, type |-> SIMPLE_BOUNDS_OBJECTIVE],
       [dim |-> 1, type |-> GENERAL_OBJECTIVE]>>,
     <<[dim |-> 2, type |-> SIMPLE_BOUNDS_OBJECTIVE]>>}

-----------------------------------------------------------------------------
(* The public calls *)

\* LexLSI::setParameters on the members
setParametersOf(m, parameters_) ==
    [m EXCEPT !.parameters = parameters_,
              !.cycling_handler =
                  IF parameters_.cycling_handling_enabled
                  THEN [@ EXCEPT !.max_counter = parameters_.cycling_max_counter,
                                 !.relax_step = parameters_.cycling_relax_step]
                  ELSE @]

HistInit ==
    [nSolves          |-> 0,      \* solve() calls started
     iterInCall       |-> 0,      \* iterations executed by the current (last) call
     phase1Factorized |-> FALSE,  \* phase 1 of the current (last) call factorized
     blocking         |-> FALSE,  \* last iteration: checkBlockingConstraints returned true
     alpha            |-> RInt(1),\* last iteration: alpha
     searched         |-> FALSE,  \* last iteration: findActiveCtr2Remove was called
     removalFound     |-> FALSE,  \* last iteration: findActiveCtr2Remove returned true
     nInitial         |-> 0,      \* rows activated with CountIteration = false
     nInitialEQ       |-> 0,      \* of these, the rows activated as EQ by setData
     since            |-> 0,      \* calls other than solve() since the last solve() returned
     repeated         |-> FALSE,  \* the current (last) solve() follows a solve() directly
     xAtBegin         |-> ZeroVector, \* x when the current (last) solve() was called
     x0               |-> ZeroVector, \* the argument of the last set_x0
     nUpdates         |-> 0,      \* last iteration: calls of cycling_handler.update
     updateIteration  |-> -1,     \* last iteration: the iteration number passed to it
     updateId         |-> NoConstraint, \* and the constraint identifier passed to it
     updateStatus     |-> TERMINATION_STATUS_UNKNOWN, \* and the status it returned
     updateSaw        |-> [x |-> ZeroVector, active |-> <<>>]]
                                  \* and x and the working sets when it was called

\* the members as the constructor leaves them
Construct(m) ==
    /\ nObj = m.nObj
    /\ nObjOffset = m.nObjOffset
    /\ objectives = m.objectives
    /\ parameters = m.parameters
    /\ x0_is_specified = m.x0_is_specified
    /\ status = m.status
    /\ nIterations = m.nIterations
    /\ nActivations = m.nActivations
    /\ nDeactivations = m.nDeactivations
    /\ nFactorizations = m.nFactorizations
    /\ step_length = m.step_length
    /\ x = m.x
    /\ dx = m.dx
    /\ lexlse = m.lexlse
    /\ cycling_handler = m.cycling_handler
    /\ operation = m.operation
    /\ hist = m.hist

\* LexLSI::LexLSI with LexLSI::resize and LexLSI::initialize
\* the object LexLSI(nVar, nObj, ObjDim_, ObjType_) after setParameters(p)
Constructed(cfg, p) ==
        /\ pc = "idle"
        /\ outcome = "ok"
        /\ Construct(
             setParametersOf(
               [nObj |-> Len(cfg),
                nObjOffset |-> IF cfg[1].type = SIMPLE_BOUNDS_OBJECTIVE THEN 1 ELSE 0,
                objectives |-> [i \in 0..Len(cfg)-1 |->
                                   Objective_resize(cfg[i + 1].dim, cfg[i + 1].type)],
                parameters |-> p,
                x0_is_specified |-> FALSE,
                status |-> TERMINATION_STATUS_UNKNOWN,
                nIterations |-> 0, nActivations |-> 0, nDeactivations |-> 0,
                nFactorizations |-> 0, step_length |-> RInt(0),
                x |-> ZeroVector, dx |-> ZeroVector,
                lexlse |-> LexLSE_resize(Len(cfg)),
                cycling_handler |-> CyclingHandler_init,
                operation |-> OPERATION_UNDEFINED,
                hist |-> HistInit, thrown |-> FALSE], p))

Init ==
    \E cfg \in ConfigMenu, p \in ParametersMenu : Constructed(cfg, p)

\* the loop "check bounds" of setData, from row CtrIndex on
RECURSIVE setData_checkBounds(_, _, _, _)
setData_checkBounds(m, ObjIndex, data, CtrIndex) ==
    IF m.thrown \/ CtrIndex >= m.objectives[ObjIndex].nCtr THEN m
    ELSE LET bl == data[CtrIndex].l
             bu == data[CtrIndex].u
         IN  IF isEqual(bl, bu)
             THEN setData_checkBounds(
                      activate(m, ObjIndex, CtrIndex, CTR_ACTIVE_EQ, FALSE),
                      ObjIndex, data, CtrIndex + 1)
             ELSE IF RLess(bu, bl)
             THEN [m EXCEPT !.thrown = TRUE]
             ELSE setData_checkBounds(m, ObjIndex, data, CtrIndex + 1)

\* a check of VarIndex that finds nothing
setData_repeatedIndexes_none(dim, data) == FALSE

\* VarIndex contains an index twice
setData_repeatedIndexes(dim, data) ==
    \E k \in 0..dim-1 : \E j \in 0..dim-1 :
        data[k].var = data[j].var /\ j # k

\* setData without the loop of lines 314-324
setDataOf_noActivation(m, ObjIndex, data) ==
    IF ObjIndex >= m.nObj THEN [m EXCEPT !.thrown = TRUE]
    ELSE IF m.objectives[ObjIndex].ObjType # GENERAL_OBJECTIVE
    THEN [m EXCEPT !.thrown = TRUE]
    ELSE IF m.objectives[ObjIndex].nCtr # Cardinality(DOMAIN data)
    THEN [m EXCEPT !.thrown = TRUE]
    ELSE [m EXCEPT !.objectives[ObjIndex] = Objective_setData(@, data)]

\* LexLSI::setData(ObjIndex, data) on the members
setDataOf(m, ObjIndex, data) ==
    IF ObjIndex >= m.nObj THEN [m EXCEPT !.thrown = TRUE]
    ELSE IF m.objectives[ObjIndex].ObjType # GENERAL_OBJECTIVE
    THEN [m EXCEPT !.thrown = TRUE]
    ELSE IF m.objectives[ObjIndex].nCtr # Cardinality(DOMAIN data)
    THEN [m EXCEPT !.thrown = TRUE]
    ELSE LET c == setData_checkBounds(m, ObjIndex, data, 0)
         IN  IF c.thrown THEN c
             ELSE [c EXCEPT !.objectives[ObjIndex] = Objective_setData(@, data)]

\* LexLSI::setData(ObjIndex, VarIndex, data) on the members
setDataSimpleBoundsOf(m, ObjIndex, data) ==
    IF ObjIndex >= m.nObj THEN [m EXCEPT !.thrown = TRUE]
    ELSE IF m.objectives[ObjIndex].ObjType # SIMPLE_BOUNDS_OBJECTIVE
    THEN [m EXCEPT !.thrown = TRUE]
    ELSE IF m.objectives[ObjIndex].nCtr # Cardinality(DOMAIN data)
    THEN [m EXCEPT !.thrown = TRUE]
    ELSE LET c == setData_checkBounds(m, ObjIndex, data, 0)
         IN  IF c.thrown THEN c
             ELSE IF setData_repeatedIndexes(c.objectives[ObjIndex].nCtr, data)
             THEN [c EXCEPT !.thrown = TRUE]
             ELSE [c EXCEPT !.objectives[ObjIndex] = Objective_setData(@, data)]

\* api_activate that throws where line 68 prints the warning
api_activateOf_throwsEQ(m, ObjIndex, CtrIndex, type) ==
    IF ~Objective_isActive(m.objectives[ObjIndex], CtrIndex)
    THEN IF type = CTR_ACTIVE_LB \/ type = CTR_ACTIVE_UB
         THEN [m |-> activate(m, ObjIndex, CtrIndex, type, FALSE), warned |-> FALSE]
         ELSE [m |-> [m EXCEPT !.thrown = TRUE], warned |-> FALSE]
    ELSE [m |-> m, warned |-> FALSE]

\* api_activate without the test of the type (line 65)
api_activateOf_anyType(m, ObjIndex, CtrIndex, type) ==
    IF ~Objective_isActive(m.objectives[ObjIndex], CtrIndex)
    THEN [m |-> activate(m, ObjIndex, CtrIndex, type, FALSE), warned |-> FALSE]
    ELSE [m |-> m, warned |-> FALSE]

\* LexLSI::api_activate on the members; warned: the warning was printed
api_activateOf(m, ObjIndex, CtrIndex, type) ==
    IF ~Objective_isActive(m.objectives[ObjIndex], CtrIndex)
    THEN IF type = CTR_ACTIVE_LB \/ type = CTR_ACTIVE_UB
         THEN [m |-> activate(m, ObjIndex, CtrIndex, type, FALSE), warned |-> FALSE]
         ELSE [m |-> m, warned |-> TRUE]
    ELSE [m |-> m, warned |-> FALSE]

\* outcome holds a status: the last call was a solve() and it has returned
IsStatus(o) ==
    o \in {TERMINATION_STATUS_UNKNOWN, PROBLEM_SOLVED,
           PROBLEM_SOLVED_CYCLING_HANDLING, MAX_NUMBER_OF_FACTORIZATIONS_EXCEDED}

\* a call that is no solve(): it ends at once
Setup(m, how) ==
    /\ pc = "idle"
    /\ \/ hist.nSolves = 0
       \/ hist.nSolves < MaxSolves /\ hist.since < MaxCallsBetween
    /\ Assign([m EXCEPT !.hist.since = IF hist.nSolves = 0 THEN 0 ELSE @ + 1])
    /\ outcome' = how
    /\ pc' = pc

\* a call of setData(ObjIndex, data); what was done before a throw stays done
setDataCall(ObjIndex, data) ==
    LET m == setDataOf(Self, ObjIndex, data)
    IN  Setup(m, IF m.thrown THEN "exception" ELSE "ok")

setData ==
    \E ObjIndex \in 0..nObj, data \in DataMenu : setDataCall(ObjIndex, data)

\* a call of setData(ObjIndex, VarIndex, data)
setDataSimpleBoundsCall(ObjIndex, data) ==
    LET m == setDataSimpleBoundsOf(Self, ObjIndex, data)
    IN  Setup(m, IF m.thrown THEN "exception" ELSE "ok")

setDataSimpleBounds ==
    \E ObjIndex \in 0..nObj, data \in DataMenu :
        setDataSimpleBoundsCall(ObjIndex, data)

api_activateCall(ObjIndex, CtrIndex, type) ==
    LET r == api_activateOf(Self, ObjIndex, CtrIndex, type)
    IN  Setup(r.m, IF r.m.thrown THEN "exception"
                   ELSE IF r.warned THEN "warning" ELSE "ok")

\* api_activate(ObjIndex, ...) with ObjIndex >= nObj: line 62 reads
\* objectives[ObjIndex] past the end of the vector before any test of
\* ObjIndex, which is undefined.  Whatever isActive() reads there, the call
\* returns silently (read as active), prints the warning (read as inactive,
\* type EQ), or reaches activate(), whose test of ObjIndex throws (read as
\* inactive, type LB or UB); or the read faults and the program ends.
api_activateOutOfRange(type) ==
    \E how \in {"ok", "exception", "warning", "crash"} :
        /\ how = "exception" => type \in {CTR_ACTIVE_LB, CTR_ACTIVE_UB}
        /\ how = "warning"   => type \notin {CTR_ACTIVE_LB, CTR_ACTIVE_UB}
        /\ pc = "idle"
        /\ \/ hist.nSolves = 0
           \/ hist.nSolves < MaxSolves /\ hist.since < MaxCallsBetween
        /\ Assign([Self EXCEPT !.hist.since = IF hist.nSolves = 0 THEN 0 ELSE @ + 1])
        /\ outcome' = how
        /\ pc' = IF how = "crash" THEN "crashed" ELSE pc

api_activate ==
    \E type \in {CTR_ACTIVE_LB, CTR_ACTIVE_UB, CTR_ACTIVE_EQ} :
        \/ \E ObjIndex \in 0..nObj-1 :
               \E CtrIndex \in 0..objectives[ObjIndex].nCtr-1 :
                   api_activateCall(ObjIndex, CtrIndex, type)
        \/ api_activateOutOfRange(type)

\* LexLSI::set_x0
set_x0 ==
    \E x0 \in X0Menu :
        Setup([Self EXCEPT !.x = x0, !.x0_is_specified = TRUE, !.hist.x0 = x0], "ok")

\* LexLSI::setParameters
setParameters ==
    \E parameters_ \in ParametersMenu :
        Setup(setParametersOf(Self, parameters_), "ok")

\* solve(), up to the top of while(1): phase1()
SolveBegin ==
    /\ pc = "idle"
    /\ hist.nSolves < MaxSolves
    /\ \A i \in 0..nObj-1 : objectives[i].hasData
    /\ LET m == phase1(Self)
       IN  Assign([m EXCEPT !.hist.nSolves = @ + 1,
                            !.hist.iterInCall = 0,
                            !.hist.repeated = (hist.nSolves > 0 /\ hist.since = 0),
                            !.hist.since = 0,
                            !.hist.xAtBegin = x])
    /\ pc' = "loop"
    /\ outcome' = "running"

\* the end of one pass of while(1): r is the outcome of the exit test; on
\* break solve() returns status
SolveContinue(r) ==
    /\ Assign(r.m)
    /\ pc' = IF r.break THEN "idle" ELSE "loop"
    /\ outcome' = IF r.break THEN r.m.status ELSE outcome

\* one pass of while(1) in solve(): verifyWorkingSet(), then the exit test.
\* The answers of ObjectiveSensitivity are drawn from what LexLSE holds when
\* findActiveCtr2Remove runs, that is after the refactorization.
SolveIterate ==
    /\ pc = "loop"
    /\ \E sens \in SensitivityAnswers(IF nIterations # 0 THEN refactorize(Self)
                                                         ELSE Self) :
           SolveContinue(solveLoopExit(verifyWorkingSet(Self, sens)))

Next ==
    \/ setData
    \/ setDataSimpleBounds
    \/ api_activate
    \/ set_x0
    \/ setParameters
    \/ SolveBegin
    \/ SolveIterate

Spec == Init /\ [][Next]_vars

\* A problem with three rows: an objective of one row above an objective of
\* two rows, cycling handling disabled, solved and solved again after setData
ThreeRowConfig ==
    <<[dim |-> 1, type |-> GENERAL_OBJECTIVE],
      [dim |-> 2, type |-> GENERAL_OBJECTIVE]>>

InitThreeRows ==
    \E p \in {q \in ParametersMenu : /\ ~q.cycling_handling_enabled
                                      /\ q.max_number_of_factorizations = MaxCap} :
        Constructed(ThreeRowConfig, p)

NextThreeRows ==
    \/ setData
    \/ set_x0
    \/ SolveBegin
    \/ SolveIterate

SpecThreeRows == InitThreeRows /\ [][NextThreeRows]_vars

-----------------------------------------------------------------------------
(* Properties *)

\* solve() has just returned: outcome holds the status it returned
Returned == pc = "idle" /\ IsStatus(outcome)

\* a boundary between two iterations of solve(), or its return
IterationBoundary == pc = "loop" \/ Returned

\* C1: solve() returns PROBLEM_SOLVED only if the last iteration it executed
\* found no blocking constraint (alpha = 1) and its removal search found no
\* constraint to remove.
C1_SolvedOnlyWhenNothingFound ==
    (Returned /\ outcome = PROBLEM_SOLVED) =>
        /\ ~hist.blocking
        /\ hist.alpha = RInt(1)
        /\ hist.searched
        /\ ~hist.removalFound

\* the rows of the working sets, with their types
ActiveRows(objs) ==
    {<<i, c, objs[i].ctr_type[c]>> : <<i, c>> \in
        {ic \in (DOMAIN objs) \X (0..1) :
            /\ ic[2] < objs[ic[1]].nCtr
            /\ Objective_isActive(objs[ic[1]], ic[2])}}

\* C2: one iteration changes the working set by at most one element: one
\* ADD, or one REMOVE, or neither; with a blocking constraint (alpha < 1) it
\* is the ADD and no REMOVE.
C2_OneChangePerIteration ==
    [][nIterations' = nIterations + 1 =>
        LET added   == nActivations' - nActivations
            removed == nDeactivations' - nDeactivations
            before  == ActiveRows(objectives)
            after   == ActiveRows(objectives')
        IN  /\ added \in {0, 1} /\ removed \in {0, 1} /\ added + removed <= 1
            /\ Cardinality(after \ before) = added
            /\ Cardinality(before \ after) = removed
            /\ getActiveCtrCountOf(objectives')
                  = getActiveCtrCountOf(objectives) + added - removed
            /\ (operation' = OPERATION_ADD) = (added = 1)
            /\ (operation' = OPERATION_REMOVE) = (removed = 1)
            /\ (hist'.blocking = RLess(hist'.alpha, RInt(1)))
            /\ (hist'.blocking => added = 1 /\ removed = 0)]_vars

\* an ADD while a row activated at a bound through api_activate was in the
\* working set
C2_Witness ==
    /\ pc = "loop"
    /\ operation = OPERATION_ADD
    /\ hist.blocking
    /\ nActivations = 1
    /\ nDeactivations = 0
    /\ hist.nInitial > hist.nInitialEQ

\* C3 as stated: at every iteration boundary nActivations - nDeactivations +
\* (rows auto-activated as ACTIVE_EQ at setData) = getActiveCtrCount().
C3_CountersWithInitialEQ ==
    (hist.nSolves > 0 /\ IterationBoundary) =>
        nActivations - nDeactivations + hist.nInitialEQ = getActiveCtrCount

\* C3 amended: the identity holds with the whole initial working set, the
\* rows activated as ACTIVE_EQ at setData and those activated by api_activate.
C3_CountersWithInitialWorkingSet ==
    (hist.nSolves > 0 /\ IterationBoundary) =>
        nActivations - nDeactivations + hist.nInitial = getActiveCtrCount

C3_Witness ==
    /\ pc = "loop"
    /\ hist.nInitial > hist.nInitialEQ
    /\ hist.nInitialEQ > 0
    /\ nActivations > 0
    /\ nDeactivations > 0

\* C4: every solve() starts from reset bookkeeping: at the start of its first
\* iteration the iteration, activation and deactivation counters are 0, the
\* factorization counter holds only this call's phase-1 factorization, and
\* status is TERMINATION_STATUS_UNKNOWN.
C4_SolveStartsReset ==
    (pc = "loop" /\ hist.iterInCall = 0) =>
        /\ nIterations = 0
        /\ nActivations = 0
        /\ nDeactivations = 0
        /\ nFactorizations = (IF hist.phase1Factorized THEN 1 ELSE 0)
        /\ status = TERMINATION_STATUS_UNKNOWN

\* C5: a second solve() with unchanged inputs returns the same x, and after
\* it the activation and deactivation counters are 0 and the factorization
\* counter is at most the one phase-1 factorization.
C5_SecondSolveIdempotent ==
    (Returned /\ hist.repeated) =>
        /\ x = hist.xAtBegin
        /\ nActivations = 0
        /\ nDeactivations = 0
        /\ nFactorizations <= 1

\* C6 as stated: whenever solve() returns MAX_NUMBER_OF_FACTORIZATIONS_EXCEDED
\* the factorization counter equals max_number_of_factorizations exactly.
C6_CapReachedExactly ==
    (Returned /\ outcome = MAX_NUMBER_OF_FACTORIZATIONS_EXCEDED) =>
        nFactorizations = parameters.max_number_of_factorizations

\* C6 amended: whenever solve() returns MAX_NUMBER_OF_FACTORIZATIONS_EXCEDED
\* the factorization counter is at least max_number_of_factorizations, and
\* equal to it in the first solve() of an instance when the cap is at least
\* 1; the last iteration did not declare the problem solved.
C6_CapReached ==
    (Returned /\ outcome = MAX_NUMBER_OF_FACTORIZATIONS_EXCEDED) =>
        /\ nFactorizations >= parameters.max_number_of_factorizations
        /\ (hist.nSolves = 1 /\ parameters.max_number_of_factorizations >= 1
               => nFactorizations = parameters.max_number_of_factorizations)
        /\ status = MAX_NUMBER_OF_FACTORIZATIONS_EXCEDED
        /\ (hist.blocking \/ ~hist.searched \/ hist.removalFound)

C6_Witness ==
    /\ Returned
    /\ outcome = MAX_NUMBER_OF_FACTORIZATIONS_EXCEDED
    /\ hist.nSolves = 1
    /\ parameters.max_number_of_factorizations = 0
    /\ nFactorizations = 1

\* C7: every return of solve() yields PROBLEM_SOLVED,
\* PROBLEM_SOLVED_CYCLING_HANDLING or MAX_NUMBER_OF_FACTORIZATIONS_EXCEDED,
\* never TERMINATION_STATUS_UNKNOWN, and it is the status stored.
C7_ReturnsTerminalStatus ==
    Returned =>
        /\ outcome \in {PROBLEM_SOLVED, PROBLEM_SOLVED_CYCLING_HANDLING,
                        MAX_NUMBER_OF_FACTORIZATIONS_EXCEDED}
        /\ outcome = status

C7_Witness ==
    /\ Returned
    /\ outcome = PROBLEM_SOLVED_CYCLING_HANDLING
    /\ status = PROBLEM_SOLVED_CYCLING_HANDLING

\* C8: the first solve() of an instance executes at most
\* max_number_of_factorizations + 1 iterations: every iteration after the
\* first performs exactly one factorization, and the loop goes on only while
\* the factorization counter is below the cap.
C8_FirstSolveBounded ==
    (hist.nSolves = 1 /\ IterationBoundary) =>
        /\ nIterations <= parameters.max_number_of_factorizations + 1
        /\ nIterations = hist.iterInCall
        /\ (nIterations >= 1 =>
               nFactorizations = (nIterations - 1)
                                    + (IF hist.phase1Factorized THEN 1 ELSE 0))
        /\ (pc = "loop" /\ nIterations >= 1 =>
               nFactorizations < parameters.max_number_of_factorizations)

C8_Witness ==
    /\ Returned
    /\ hist.nSolves = 1
    /\ parameters.max_number_of_factorizations >= 2
    /\ nIterations = parameters.max_number_of_factorizations + 1

\* C9: at an iteration boundary after which the loop continues, status is
\* TERMINATION_STATUS_UNKNOWN.
C9_UnknownWhileLooping ==
    (pc = "loop" /\ hist.iterInCall >= 1) =>
        status = TERMINATION_STATUS_UNKNOWN

\* the counters, x and status
Bookkeeping ==
    <<nIterations, nActivations, nDeactivations, nFactorizations, x, dx, status>>

\* C10: api_activate(obj, row, ACTIVE_EQ) on an inactive row is rejected: the
\* row stays inactive and the working set, the counters, x and status are
\* unchanged; a row enters the working set through api_activate only as
\* ACTIVE_LB or ACTIVE_UB.
C10_ApiActivateRejectsEQ ==
    [][\A ObjIndex \in 0..nObj-1 :
         \A CtrIndex \in 0..objectives[ObjIndex].nCtr-1 :
           \A type \in {CTR_ACTIVE_LB, CTR_ACTIVE_UB, CTR_ACTIVE_EQ} :
             api_activateCall(ObjIndex, CtrIndex, type) =>
               /\ (type = CTR_ACTIVE_EQ /\ ~Objective_isActive(objectives[ObjIndex], CtrIndex)
                     => /\ objectives' = objectives
                        /\ Bookkeeping' = Bookkeeping
                        /\ outcome' = "warning")
               /\ (objectives' # objectives
                     => /\ type \in {CTR_ACTIVE_LB, CTR_ACTIVE_UB}
                        /\ objectives'[ObjIndex].ctr_type[CtrIndex] = type
                        /\ ActiveRows(objectives')
                             = ActiveRows(objectives) \cup {<<ObjIndex, CtrIndex, type>>})
      ]_vars

C10_Witness ==
    /\ outcome = "warning"
    /\ hist.nSolves = 1
    /\ getActiveCtrCount > 0

\* C11 as stated: api_activate with type ACTIVE_EQ ends with an InvalidInput
\* error.
C11_ApiActivateEQIsError ==
    [][\A ObjIndex \in 0..nObj-1 :
         \A CtrIndex \in 0..objectives[ObjIndex].nCtr-1 :
           api_activateCall(ObjIndex, CtrIndex, CTR_ACTIVE_EQ)
               => outcome' = "exception"
      ]_vars

\* C11 amended: api_activate with type ACTIVE_EQ never ends with an error:
\* on an inactive row it prints a warning and returns, on an active row it
\* returns silently; in both cases nothing is changed.
C11_ApiActivateEQIsWarning ==
    [][\A ObjIndex \in 0..nObj-1 :
         \A CtrIndex \in 0..objectives[ObjIndex].nCtr-1 :
           api_activateCall(ObjIndex, CtrIndex, CTR_ACTIVE_EQ)
               => /\ outcome' # "exception"
                  /\ outcome' = (IF Objective_isActive(objectives[ObjIndex], CtrIndex)
                                 THEN "ok" ELSE "warning")
                  /\ objectives' = objectives
      ]_vars

C11_Witness ==
    /\ outcome = "warning"
    /\ hist.nSolves = 0
    /\ getActiveCtrCount = 0
    /\ \A i \in 0..nObj-1 : objectives[i].hasData

\* C12: a public operation called with ObjIndex >= nObj fails with an
\* InvalidInput error before it reads or modifies any objective; here for
\* api_activate.
C12_OutOfRangeIsError ==
    [][\A type \in {CTR_ACTIVE_LB, CTR_ACTIVE_UB, CTR_ACTIVE_EQ} :
         api_activateOutOfRange(type) => outcome' = "exception"
      ]_vars

\* the failure conditions of setData on objective ObjIndex
BoundsInverted(data) ==
    \E c \in DOMAIN data : RLess(data[c].u, data[c].l)

RowCountDiffers(ObjIndex, data) ==
    objectives[ObjIndex].nCtr # Cardinality(DOMAIN data)

VarIndexRepeated(data) ==
    \E j \in DOMAIN data : \E k \in DOMAIN data : j # k /\ data[j].var = data[k].var

\* a row with l = u that is already in the working set
EqualRowAlreadyActive(ObjIndex, data) ==
    \E c \in DOMAIN data :
        /\ c < objectives[ObjIndex].nCtr
        /\ data[c].l = data[c].u
        /\ Objective_isActive(objectives[ObjIndex], c)

\* the four conditions of C13, for the overload of objective type `type`
ListedFailure(ObjIndex, data, type) ==
    /\ ObjIndex < nObj
    /\ \/ objectives[ObjIndex].ObjType # type
       \/ RowCountDiffers(ObjIndex, data)
       \/ BoundsInverted(data)
       \/ type = SIMPLE_BOUNDS_OBJECTIVE /\ VarIndexRepeated(data)

\* whether setData of the overload for objective type `type` throws
setDataThrows(ObjIndex, data, type) ==
    IF type = GENERAL_OBJECTIVE
    THEN setDataOf(Self, ObjIndex, data).thrown
    ELSE setDataSimpleBoundsOf(Self, ObjIndex, data).thrown

ObjectiveTypes == {GENERAL_OBJECTIVE, SIMPLE_BOUNDS_OBJECTIVE}

FreshObjective(o) ==
    /\ o.active = <<>>
    /\ \A c \in 0..o.nCtr-1 : o.ctr_type[c] = CTR_INACTIVE
    /\ ~o.hasData

\* the rows c.. of data with l = u, in ascending order
RECURSIVE EqualRowsFrom(_, _)
EqualRowsFrom(data, c) ==
    IF c \notin DOMAIN data THEN <<>>
    ELSE (IF data[c].l = data[c].u THEN <<c>> ELSE <<>>)
            \o EqualRowsFrom(data, c + 1)

\* what C14 says of objective ObjIndex in the members m left by setData
AutoActivated(m, ObjIndex, data) ==
    /\ m.objectives[ObjIndex].active = EqualRowsFrom(data, 0)
    /\ \A c \in DOMAIN data :
           m.objectives[ObjIndex].ctr_type[c]
               = (IF data[c].l = data[c].u THEN CTR_ACTIVE_EQ ELSE CTR_INACTIVE)
    /\ m.objectives[ObjIndex].data = data
    /\ m.nActivations = nActivations

\* the members after setData of the overload for objective type `type`
setDataResult(ObjIndex, data, type) ==
    IF type = GENERAL_OBJECTIVE
    THEN setDataOf(Self, ObjIndex, data)
    ELSE setDataSimpleBoundsOf(Self, ObjIndex, data)

\* C14: after a successful setData on a freshly constructed objective exactly
\* the rows with l = u are in the working set, as ACTIVE_EQ and in ascending
\* row order; the other rows are INACTIVE and nActivations is unchanged.
C14_SetDataActivatesEqualRows ==
    pc = "idle" =>
        \A ObjIndex \in 0..nObj-1 : \A data \in DataMenu : \A type \in ObjectiveTypes :
            (/\ FreshObjective(objectives[ObjIndex])
             /\ ~setDataResult(ObjIndex, data, type).thrown)
                => AutoActivated(setDataResult(ObjIndex, data, type), ObjIndex, data)

C14_Witness ==
    /\ outcome = "ok"
    /\ hist.nSolves = 0
    /\ nObj = 1
    /\ objectives[0].hasData
    /\ objectives[0].active = <<0, 1>>
    /\ objectives[0].ctr_type[0] = CTR_ACTIVE_EQ
    /\ objectives[0].ctr_type[1] = CTR_ACTIVE_EQ
    /\ nActivations = 0

\* row CtrIndex of objective o is in o's working set
InWorkingSet(o, CtrIndex) ==
    \E p \in 1..Len(o.active) : o.active[p] = CtrIndex

\* a step of solve(): phase 1 or one iteration of the loop
SolveStep == pc = "loop" \/ pc' = "loop"

ActivationTypes ==
    {CTR_INACTIVE, CTR_ACTIVE_LB, CTR_ACTIVE_UB, CTR_ACTIVE_EQ}

\* the positions of row CtrIndex in the working set of o
PositionsOf(o, CtrIndex) ==
    {p \in 1..Len(o.active) : o.active[p] = CtrIndex}

C17_CounterKept ==
    [][(SolveStep /\ ~parameters.cycling_handling_enabled) =>
          cycling_handler' = cycling_handler
      ]_vars

\* the first iteration of a solve() called with x0 supplied is about to run
FirstIterationWithX0 ==
    pc = "loop" /\ hist.iterInCall = 0 /\ x0_is_specified

\* C18 as stated: with x0 supplied the first iteration of solve() performs no
\* factorization, evaluates the blocking check and, when nothing blocks,
\* also the removal search.
C18_FirstIterationSearches ==
    [][FirstIterationWithX0 =>
          /\ nFactorizations' = nFactorizations
          /\ ~hist'.blocking => hist'.searched
      ]_vars

\* C18 amended: with x0 supplied and nIterations = 0 the first iteration of
\* solve() performs no factorization, evaluates the blocking check and skips
\* the removal search also when nothing blocks, so it neither removes a row
\* nor declares PROBLEM_SOLVED; when nIterations # 0 (a later solve()) the
\* first iteration factorizes and, when nothing blocks, searches.
C18_FirstIterationSkipsSearch ==
    [][FirstIterationWithX0 =>
          IF nIterations = 0
          THEN /\ nFactorizations' = nFactorizations
               /\ ~hist'.searched
               /\ operation' # OPERATION_REMOVE
               /\ nDeactivations' = nDeactivations
               /\ status' # PROBLEM_SOLVED
          ELSE /\ nFactorizations' = nFactorizations + 1
               /\ ~hist'.blocking => hist'.searched
      ]_vars

\* the first iteration of the first solve() has run with x0 supplied and a
\* row active as LB or UB: nothing blocked, nothing was searched or removed
C18_Witness ==
    /\ hist.nSolves = 1
    /\ nIterations = 1
    /\ x0_is_specified
    /\ nFactorizations = 0
    /\ ~hist.blocking
    /\ ~hist.searched
    /\ operation = OPERATION_UNDEFINED
    /\ \E i \in 0..nObj-1 : \E c \in 0..objectives[i].nCtr-1 :
           objectives[i].ctr_type[c] \in {CTR_ACTIVE_LB, CTR_ACTIVE_UB}

\* row c of objective o holds at x: l <= a^T x <= u
RowSatisfied(o, c) ==
    /\ ~RLess(x[o.data[c].var], o.data[c].l)
    /\ ~RLess(o.data[c].u, x[o.data[c].var])

\* C19: whenever solve() returns PROBLEM_SOLVED every inactive row of every
\* objective satisfies l <= a^T x <= u at the returned x.
C19_SolvedIsFeasible ==
    (Returned /\ outcome = PROBLEM_SOLVED) =>
        \A i \in 0..nObj-1 : \A c \in 0..objectives[i].nCtr-1 :
            objectives[i].ctr_type[c] = CTR_INACTIVE
                => RowSatisfied(objectives[i], c)

\* the members the blocking check of the next iteration reads: after the
\* refactorization of lines 651-661 when nIterations # 0
BlockingInput == IF nIterations # 0 THEN refactorize(Self) ELSE Self

\* the inactive rows of all objectives, as <<objective, row>>
InactiveRows(m) ==
    UNION {{<<i, c>> : c \in {r \in 0..m.objectives[i].nCtr-1 :
                                 ~Objective_isActive(m.objectives[i], r)}} :
           i \in 0..m.nObj-1}

\* the step length at which inactive row ic reaches a bound, and which bound
RowAlpha(m, ic) == Objective_rowRatio(m.objectives[ic[1]], ic[2], m.x, m.dx)

\* the minimum of 1 and the step lengths of all inactive rows
MinAlpha(m) ==
    LET S == {RInt(1)} \cup {RowAlpha(m, ic).alpha : ic \in InactiveRows(m)}
    IN  CHOOSE a \in S : \A b \in S : ~RLess(b, a)

\* the inactive rows that attain the minimum
Tightest(m) == {ic \in InactiveRows(m) : RowAlpha(m, ic).alpha = MinAlpha(m)}

\* the lowest <<objective, row>> of S
FirstOf(S) ==
    CHOOSE ic \in S : \A jc \in S :
        ic[1] < jc[1] \/ (ic[1] = jc[1] /\ ic[2] <= jc[2])

\* what C20 says of the result blk of the blocking check on the members m
GlobalMinimum(m, blk) ==
    /\ blk.alpha = MinAlpha(m)
    /\ blk.found = RLess(MinAlpha(m), RInt(1))
    /\ blk.found =>
          /\ <<blk.ObjIndexBlocking, blk.CtrIndexBlocking>> = FirstOf(Tightest(m))
          /\ blk.CtrTypeBlocking = RowAlpha(m, FirstOf(Tightest(m))).type

\* C20: the blocking check returns the minimum alpha over the inactive rows
\* of all objectives, starting from 1, and reports a blocking constraint iff
\* that minimum is < 1; the candidate (objective, row, bound side) is the row
\* attaining the minimum, the lowest (objective, row) among ties.
C20_BlockingIsGlobalMinimum ==
    pc = "loop" =>
        GlobalMinimum(BlockingInput, checkBlockingConstraints(BlockingInput))

\* an iteration is about to run its blocking check with rows of two
\* objectives attaining the same minimum alpha < 1
C20_Witness ==
    /\ pc = "loop"
    /\ RLess(MinAlpha(BlockingInput), RInt(1))
    /\ \E ic \in Tightest(BlockingInput) : \E jc \in Tightest(BlockingInput) :
           ic[1] # jc[1]

\* the levels of LexLSE whose sensitivity reports a descent direction
DescentLevels(sens) ==
    {L \in DOMAIN sens : sens[L].DescentDirectionExists}

\* what C21 says of the result r of the removal search on the members m when
\* the sensitivity of level L answers sens[L]
FirstDescentLevel(m, sens, r) ==
    /\ DOMAIN sens = 0..(m.nObj - m.nObjOffset - 1)
    /\ r.found = (DescentLevels(sens) # {})
    /\ r.found =>
          \E L \in DescentLevels(sens) :
              /\ \A K \in DescentLevels(sens) : L <= K
              /\ r.ObjIndex2Remove = sens[L].ObjIndex2Remove_int + m.nObjOffset
              /\ r.CtrIndex2Remove = sens[L].CtrIndex2Remove
              /\ r.ObjIndex2Remove \in 0..m.nObj-1
              /\ r.CtrIndex2Remove \in
                     0..Len(m.objectives[r.ObjIndex2Remove].active)-1
              /\ sens[L].ObjIndex2Remove_int = -1
                     => (m.nObjOffset = 1 /\ r.ObjIndex2Remove = 0)

\* C21: the removal search takes the first level, in ascending order, whose
\* sensitivity reports a descent direction; the objective it names is
\* level_internal + nObjOffset, a valid objective index < nObj, and
\* level_internal = -1 names objective 0 and arises only with nObjOffset = 1.
C21_RemovalFromFirstDescentLevel ==
    pc = "loop" =>
        \A sens \in SensitivityAnswers(BlockingInput) :
            FirstDescentLevel(BlockingInput, sens,
                              findActiveCtr2Remove(BlockingInput, sens))

\* an iteration has removed the row of the top simple-bounds objective while
\* the row of the objective below stayed active
C21_Witness ==
    /\ nObj = 2
    /\ nObjOffset = 1
    /\ operation = OPERATION_REMOVE
    /\ nDeactivations = 1
    /\ nActivations = 0
    /\ hist.nInitial = 2
    /\ objectives[0].active = <<>>
    /\ objectives[1].active = <<0>>

\* the step of solve() that runs phase1()
Phase1Step == pc = "idle" /\ pc' = "loop"

\* the lexicographic solution of the rows of the working sets
WorkingSetSolution ==
    [k \in VarIndexSet |->
        LexLSE_component([i \in 0..nObj-1 |-> Objective_formLexLSE(objectives[i])],
                         nObj, nObjOffset, k)]

\* the post-state of phase 1 without x0, and dx = 0 in every case
Phase1WithoutX0 ==
    /\ dx' = ZeroVector
    /\ (getActiveCtrCount > 0 /\ ~x0_is_specified) =>
           /\ nFactorizations' = nFactorizations + 1
           /\ x' = WorkingSetSolution
    /\ (getActiveCtrCount = 0 /\ ~x0_is_specified) =>
           /\ nFactorizations' = nFactorizations
           /\ \A k \in VarIndexSet : x'[k] = Rat(1, 100)

\* the first iteration of a solve() that starts with nIterations = 0
FreshFirstIteration == pc = "loop" /\ nIterations = 0

\* C22 as stated: after phase 1, with an active row and no x0 one
\* factorization was performed and x is the LexLSE solution; with x0
\* supplied x equals x0 and nothing was factorized; with no active row and
\* no x0 every component of x is 0.01 and nothing was factorized; dx = 0 in
\* all cases and the first iteration of a fresh solve() leaves x unchanged.
C22_Phase1KeepsX0 ==
    [][/\ Phase1Step =>
             /\ Phase1WithoutX0
             /\ x0_is_specified =>
                    (x' = hist.x0 /\ nFactorizations' = nFactorizations)
       /\ FreshFirstIteration => x' = x
      ]_vars

\* C22 amended: as C22, but with x0 supplied phase 1 leaves x as it was when
\* solve() was called: that is the x0 of set_x0 only if no solve() has moved
\* x since, otherwise it is the x the previous solve() returned.
C22_Phase1KeepsX ==
    [][/\ Phase1Step =>
             /\ Phase1WithoutX0
             /\ x0_is_specified =>
                    /\ x' = x
                    /\ nFactorizations' = nFactorizations
                    /\ hist.nSolves = 0 => x' = hist.x0
       /\ FreshFirstIteration => x' = x
      ]_vars

\* phase 1 of a second solve() has run with x0 supplied and rows active: x is
\* where the first solve() left it, not at x0, and nothing was factorized
C22_Witness ==
    /\ pc = "loop"
    /\ hist.nSolves = 2
    /\ hist.iterInCall = 0
    /\ x0_is_specified
    /\ x # hist.x0
    /\ x = hist.xAtBegin
    /\ dx = ZeroVector
    /\ ~hist.phase1Factorized
    /\ getActiveCtrCount > 0

\* x and every v of the next state are those of the members m advanced by
\* alpha along m's dx and dv
AdvancedBy(m, alpha) ==
    /\ x' = [k \in VarIndexSet |-> RAdd(m.x[k], RMul(alpha, m.dx[k]))]
    /\ \A i \in 0..nObj-1 : \A c \in 0..objectives[i].nCtr-1 :
           objectives'[i].v[c] =
               RAdd(m.objectives[i].v[c], RMul(alpha, m.objectives[i].dv[c]))

\* what C23 says of an iteration that reads the members m and finds alpha
StepOfIteration(m, alpha) ==
    /\ alpha = checkBlockingConstraints(m).alpha
    /\ ~RLess(alpha, RInt(0))
    /\ ~RLess(RInt(1), alpha)
    /\ m.x = x
    /\ AdvancedBy(m, alpha)
    /\ ~hist'.blocking => (alpha = RInt(1) /\ AdvancedBy(m, RInt(1)))
    /\ alpha = RInt(0) =>
           /\ x' = x
           /\ \A i \in 0..nObj-1 : objectives'[i].v = objectives[i].v

\* C23: in every iteration the new iterate is x + alpha*dx with the alpha of
\* that iteration's blocking check, alpha is in [0,1], and every objective's
\* v is advanced with the same alpha; without a blocking constraint alpha = 1
\* and the full step is taken; with alpha = 0 neither x nor any v changes.
C23_StepByAlpha ==
    [][pc = "loop" => StepOfIteration(BlockingInput, hist'.alpha)]_vars

\* an iteration has added a blocking row after a step of length strictly
\* between 0 and 1 along a dx that is not zero
C23_Witness ==
    /\ operation = OPERATION_ADD
    /\ hist.blocking
    /\ RLess(RInt(0), hist.alpha)
    /\ RLess(hist.alpha, RInt(1))
    /\ step_length = hist.alpha
    /\ dx # ZeroVector

\* the row named by the constraint identifier id changed from inactive to
\* id.type (ADD) or from id.type to inactive (REMOVE) in this iteration
NamesChangedRow(id, op) ==
    /\ id.obj \in 0..nObj-1
    /\ id.ctr \in 0..objectives[id.obj].nCtr-1
    /\ id.type \in {CTR_ACTIVE_LB, CTR_ACTIVE_UB}
    /\ op = OPERATION_ADD =>
           /\ objectives[id.obj].ctr_type[id.ctr] = CTR_INACTIVE
           /\ objectives'[id.obj].ctr_type[id.ctr] = id.type
    /\ op = OPERATION_REMOVE =>
           /\ objectives[id.obj].ctr_type[id.ctr] = id.type
           /\ objectives'[id.obj].ctr_type[id.ctr] = CTR_INACTIVE

\* what C24 says of an iteration with cycling handling enabled
HandlerUpdatedOnChange ==
    /\ hist'.nUpdates = (IF operation' \in {OPERATION_ADD, OPERATION_REMOVE}
                         THEN 1 ELSE 0)
    /\ hist'.nUpdates = 0 => cycling_handler' = cycling_handler
    /\ hist'.nUpdates = 1 =>
           /\ hist'.updateIteration = nIterations
           /\ nIterations' = nIterations + 1
           /\ hist'.updateSaw.x = x'
           /\ hist'.updateSaw.active = [i \in 0..nObj-1 |-> objectives'[i].active]
           /\ cycling_handler'.previous =
                  [operation |-> operation', id |-> hist'.updateId]
           /\ NamesChangedRow(hist'.updateId, operation')

\* C24: with cycling handling enabled cycling_handler.update is called in
\* exactly the iterations that performed an ADD or a REMOVE, once, after the
\* working-set change and the step, with the iteration number before its
\* increment; the identifier passed names the row by its index within its
\* objective and, for a REMOVE, the type it had before it was deactivated.
C24_HandlerUpdatedOnChange ==
    [][(pc = "loop" /\ parameters.cycling_handling_enabled)
          => HandlerUpdatedOnChange]_vars

\* the handler was updated in an iteration that removed row 1 from position 0
\* of the working set: the identifier names row 1 and its former type
C24_Witness ==
    /\ parameters.cycling_handling_enabled
    /\ operation = OPERATION_REMOVE
    /\ hist.nUpdates = 1
    /\ hist.updateId.obj = 0
    /\ hist.updateId.ctr = 1
    /\ hist.updateId.type \in {CTR_ACTIVE_LB, CTR_ACTIVE_UB}
    /\ objectives[0].nCtr = 2
    /\ objectives[0].ctr_type[0] = CTR_INACTIVE
    /\ objectives[0].ctr_type[1] = CTR_INACTIVE

\* the cycling handler was updated in this iteration and signalled
\* PROBLEM_SOLVED_CYCLING_HANDLING
HandlerSignals ==
    /\ pc = "loop"
    /\ hist'.nUpdates = 1
    /\ hist'.updateStatus = PROBLEM_SOLVED_CYCLING_HANDLING

\* C25: when the cycling handler signals PROBLEM_SOLVED_CYCLING_HANDLING in
\* an iteration, solve() returns that status right after that iteration,
\* with the counters of that iteration and its ADD or REMOVE applied.
C25_ReturnsWhenHandlerSignals ==
    [][HandlerSignals =>
          /\ pc' = "idle"
          /\ outcome' = PROBLEM_SOLVED_CYCLING_HANDLING
          /\ nIterations' = nIterations + 1
          /\ nFactorizations' <= nFactorizations + 1
          /\ nActivations' + nDeactivations' = nActivations + nDeactivations + 1
          /\ NamesChangedRow(hist'.updateId, operation')
      ]_vars

\* the first solve() has returned PROBLEM_SOLVED_CYCLING_HANDLING from an
\* iteration that added a row back and in which the handler signalled it
C25_Witness ==
    /\ Returned
    /\ outcome = PROBLEM_SOLVED_CYCLING_HANDLING
    /\ hist.nSolves = 1
    /\ hist.nUpdates = 1
    /\ operation = OPERATION_ADD
    /\ hist.updateStatus = PROBLEM_SOLVED_CYCLING_HANDLING
    /\ cycling_handler.counter >= 1

\* getLambda() on the solver as it is between two calls
LambdaShapes == getLambda(Self)

\* The rows of L hold every head(nMeaningful) that is copied into a column
LambdaHoldsCopies(r) == \A k \in DOMAIN r.copied : r.copied[k] <= r.rows

\* C26: getLambda() returns a matrix with nObj columns whose row count is at
\* least the number of multipliers copied into any column (fixed variables
\* plus the dimensions of LexLSE levels 0..k), for nObjOffset = 0 and 1
\* alike, and it queries LexLSE dimensions of existing levels only.
C26_LambdaShape ==
    pc = "idle" =>
        \A r \in LambdaShapes :
            /\ r.cols = nObj
            /\ LambdaHoldsCopies(r)
            /\ r.queried \subseteq LexLSE_levels(Self)

\* With nObjOffset = 0 the shape is as claimed
C26_LambdaShapeGeneral ==
    (pc = "idle" /\ nObjOffset = 0) =>
        \A r \in LambdaShapes :
            /\ r.cols = nObj
            /\ LambdaHoldsCopies(r)
            /\ r.queried \subseteq LexLSE_levels(Self)

\* With nObjOffset = 1 a column can receive more entries than L has rows
C26_NoShortLambda ==
    ~(/\ Returned /\ nObjOffset = 1
      /\ LexLSE_getFixedVariablesCount(lexlse, nObjOffset) > 0
      /\ \E r \in LambdaShapes : ~LambdaHoldsCopies(r))

\* The LexLSE of m has been assembled from the working set m has now and
\* factorized since
LexLSEIsCurrent(m) ==
    /\ m.lexlse.formed
    /\ m.lexlse.factorized
    /\ m.lexlse.rows = [i \in ObjIndexSet(m) |->
                           Objective_formLexLSE(m.objectives[i])]

\* An iteration of solve() that calls findActiveCtr2Remove, and with it
\* lexlse.ObjectiveSensitivity
SearchingIteration == pc = "loop" /\ hist'.searched

\* C27: whenever the removal search invokes the LexLSE sensitivity analysis
\* during solve(), the LexLSE has been assembled from the current working
\* set and factorized since the last change of the working set, also in the
\* first iteration of a solve() that starts with no active row and no x0.
C27_SearchOnFactorized ==
    [][SearchingIteration => LexLSEIsCurrent(BlockingInput)]_vars

\* The same with the iteration that follows a phase 1 without active rows
\* left out
C27_SearchOnFactorizedUnlessEmpty ==
    [][(SearchingIteration /\ ~(nIterations = 0 /\ getActiveCtrCount = 0))
          => LexLSEIsCurrent(BlockingInput)]_vars

\* A first solve() on an empty working set without x0 has searched a row to
\* remove in a LexLSE that was never assembled
C27_NoSearchOnUnformed ==
    ~(/\ hist.nSolves = 1 /\ hist.iterInCall = 1 /\ hist.searched
      /\ ~x0_is_specified /\ ~lexlse.formed /\ ~lexlse.factorized)

\* setData of the overload for `type` fails on the data itself: l > u in
\* some row, or VarIndex with a repeated index
FailsOnData(ObjIndex, data, type) ==
    /\ ObjIndex < nObj
    /\ type = objectives[ObjIndex].ObjType
    /\ ~RowCountDiffers(ObjIndex, data)
    /\ setDataThrows(ObjIndex, data, type)
    /\ \/ BoundsInverted(data)
       \/ type = SIMPLE_BOUNDS_OBJECTIVE /\ VarIndexRepeated(data)

\* the members m are those of the solver now
SolverUnchanged(m) == [m EXCEPT !.thrown = FALSE, !.hist = hist] = Self

\* the members m differ from the solver's at most in the working set of
\* objective ObjIndex
OnlyWorkingSetChanged(m, ObjIndex) ==
    [m EXCEPT !.thrown = FALSE,
              !.hist = hist,
              !.objectives[ObjIndex].active = objectives[ObjIndex].active,
              !.objectives[ObjIndex].ctr_type = objectives[ObjIndex].ctr_type]
        = Self

\* C28: a setData call that fails with an error (l > u in some row,
\* duplicate VarIndex entries) leaves the solver unchanged: no row has been
\* activated as ACTIVE_EQ by the failed call, and the objective's data, its
\* working set and all counters are as before the call.
C28_FailedSetDataChangesNothing ==
    pc = "idle" =>
        \A ObjIndex \in 0..nObj-1 : \A data \in DataMenu : \A type \in ObjectiveTypes :
            FailsOnData(ObjIndex, data, type)
                => SolverUnchanged(setDataResult(ObjIndex, data, type))

\* What a failed setData does leave as it was: the data and the counters
C28_FailedSetDataKeepsData ==
    pc = "idle" =>
        \A ObjIndex \in 0..nObj-1 : \A data \in DataMenu : \A type \in ObjectiveTypes :
            FailsOnData(ObjIndex, data, type)
                => OnlyWorkingSetChanged(setDataResult(ObjIndex, data, type), ObjIndex)

\* setData has failed on l > u in row 1 after activating row 0 as EQ
C28_NoRowLeftActive ==
    ~(/\ outcome = "exception"
      /\ hist.nSolves = 0
      /\ nObj = 1
      /\ objectives[0].ObjType = GENERAL_OBJECTIVE
      /\ objectives[0].active = <<0>>
      /\ objectives[0].ctr_type[0] = CTR_ACTIVE_EQ
      /\ ~objectives[0].hasData
      /\ nActivations = 0)

\* no counter is smaller after the step
NoCounterDecreases ==
    /\ nIterations' >= nIterations
    /\ nActivations' >= nActivations
    /\ nDeactivations' >= nDeactivations
    /\ nFactorizations' >= nFactorizations

\* a step of the first solve() of the instance: its phase 1, which ends at
\* the boundary before iteration 0, or one of its iterations
FirstSolveStep == SolveStep /\ hist'.nSolves = 1

\* the factorizations of phase 1: nFactorizations++ of line 138
Phase1Factorizations == IF hist.phase1Factorized THEN 1 ELSE 0

\* what C29 says of the counters at the boundary a step of solve() ends at,
\* apart from the count of factorizations
IterationsCounted ==
    /\ (pc = "loop" => nIterations' = nIterations + 1)
    /\ nActivations' + nDeactivations' <= nIterations'
    /\ NoCounterDecreases

\* C29 as stated: in a first solve() on a fresh instance nIterations
\* increases by exactly 1 per iteration, nActivations + nDeactivations <=
\* nIterations, at every iteration boundary nFactorizations =
\* (nIterations - 1) + (1 if phase 1 factorized, else 0), and no counter ever
\* decreases.
C29_CountersAtEveryBoundary ==
    [][/\ NoCounterDecreases
       /\ FirstSolveStep =>
             /\ IterationsCounted
             /\ nFactorizations' = (nIterations' - 1) + Phase1Factorizations'
      ]_vars

\* C29 amended: the count of factorizations is (nIterations - 1) + (1 if
\* phase 1 factorized, else 0) at every boundary that follows an iteration;
\* at the boundary before the first iteration, where nIterations = 0, it is
\* (1 if phase 1 factorized, else 0).  The rest is as stated.
C29_CountersAfterIterations ==
    [][/\ NoCounterDecreases
       /\ FirstSolveStep =>
             /\ IterationsCounted
             /\ nFactorizations' =
                   (IF nIterations' = 0 THEN 0 ELSE nIterations' - 1)
                       + Phase1Factorizations'
      ]_vars

\* a first solve() whose phase 1 factorized has returned after two
\* iterations that changed the working set
C29_Witness ==
    /\ Returned
    /\ hist.nSolves = 1
    /\ hist.phase1Factorized
    /\ nIterations = 2
    /\ nFactorizations = 2
    /\ nActivations + nDeactivations >= 1

====
